---- MODULE Spec2Model ----
(***************************************************************************)
(* Model of the rag-vision-engine support index (SupportIndex), the        *)
(* support tree on disk that the upload endpoint writes, and the places    *)
(* of RagVisionService that construct SupportIndex objects.                *)
(*                                                                         *)
(* Conventions                                                             *)
(*  - a directory is the sequence of its entries in os.listdir order; a    *)
(*    new entry is appended, an overwritten file keeps its position;       *)
(*  - the support root is the record disk: kind says whether the path is   *)
(*    a directory, missing or a plain file, root lists its entries, plain  *)
(*    is the set of entries that are plain files, files holds the files    *)
(*    of each class folder;                                                *)
(*  - similarities are dot products of small integer unit vectors, so      *)
(*    float rounding is not modelled;                                      *)
(*  - sequences are 1-based: the ghost field "row" of an evidence item is  *)
(*    the 1-based row of the EmbeddingMatrix, while patch_idx and          *)
(*    query_patch_idx keep the 0-based values the code stores.             *)
(***************************************************************************)
EXTENDS Integers, Sequences, FiniteSets, TLC

VARIABLES disk, index, clip_side, ret, nup, svc, obj, req, pp, ui

vars == <<disk, index, clip_side, ret, nup, svc, obj, req, pp, ui>>

\* the state of analyze() calls, of the postprocessor and of the UI
avars == <<svc, obj, req, pp, ui>>

(* ------------------------------ bounds --------------------------------- *)
\* number of upload requests in one behaviour
MaxUploads == 2
\* largest k passed to retrieve()
MaxK == 2
\* longest model output given to the postprocessor, in symbols
MaxText == 4
\* largest number of images in one gallery of the UI
MaxGallery == 2

(* ------------------------------ domains -------------------------------- *)
Labels == {"a", "b"}
\* the "classes" form field of an upload, after json.loads
ClassLists == {<<"a">>, <<"a", "b">>}
\* the "index" form field of an upload
UploadIndexes == {0, 1}
\* decodable image contents; any other bytes do not decode
ImageContents == {"img1", "img2"}
\* uploaded files: suffix of the file name and bytes ("" is an empty file)
UploadFiles == {[ext |-> ".png", bytes |-> "img1"],
                [ext |-> ".png", bytes |-> "bad"],
                [ext |-> ".webp", bytes |-> "img1"],
                [ext |-> ".gif", bytes |-> ""]}
\* (support_res, support_patch_size) request parameters: division by zero,
\* a 2x2 and a 1x1 tiling, a patch larger than the image, a patch that does
\* not divide the resolution
SupportParams == {<<2, 0>>, <<2, 1>>, <<2, 2>>, <<2, 3>>, <<3, 2>>}
\* side of the encoder's token grid (7 for CLIP ViT-B/32)
EncoderSides == {1, 2}
\* the SupportIndex objects: the warm-up instance and the one of a request
DummyId == "warmup"
IndexIds == {"warmup", "request"}
\* outcomes of numpy's argsort on equal keys (not specified by numpy)
TieOrders == {"stable", "reverse"}

\* names of root entries that start with "."
HiddenNames == {".cache"}
\* the analyze() calls in flight on the one RagVisionService
Requests == {1, 2}
\* SupportIndex objects of analyze(): 0 is the dummy of the warm-up, r the
\* one request r constructs; None stands for Python's None
ObjIds == {0} \cup Requests
None == -1

Min(x, y) == IF x <= y THEN x ELSE y
Max(x, y) == IF x >= y THEN x ELSE y
Range(s) == {s[n] : n \in DOMAIN s}

(* --------------------------- support tree ------------------------------ *)
\* os.path.isdir(folder) for a class folder
IsDir(d, label) ==
    d.kind = "dir" /\ label \in Range(d.root) /\ label \notin d.plain

\* position of file name <<idx, ext>> in a directory listing, 0 if absent
PosOf(listing, idx, ext) ==
    LET hits == {n \in DOMAIN listing :
                    listing[n].idx = idx /\ listing[n].ext = ext}
    IN IF hits = {} THEN 0 ELSE CHOOSE n \in hits : TRUE

\* shutil.rmtree(SUPPORT_ROOT); os.makedirs(SUPPORT_ROOT);
\* os.makedirs(cls, exist_ok=True) for cls in all_classes
WipeAndRecreate(classes) ==
    [kind |-> "dir", root |-> classes, plain |-> {},
     files |-> [l \in Labels |-> <<>>]]

\* extension kept by the upload endpoint
UploadExt(ext) ==
    IF ext \in {".jpg", ".jpeg", ".png", ".webp", ".bmp"} THEN ext ELSE ".jpg"

\* save_image_bytes: makedirs(class_dir, exist_ok=True); open(path, "wb")
SaveImageBytes(d, label, idx, ext, bytes) ==
    LET root1 == IF IsDir(d, label) THEN d.root ELSE Append(d.root, label)
        old == d.files[label]
        p == PosOf(old, idx, ext)
        e == [idx |-> idx, ext |-> ext, content |-> bytes]
        new == IF p = 0 THEN Append(old, e) ELSE [old EXCEPT ![p] = e]
    IN [kind |-> "dir", root |-> root1, plain |-> d.plain,
        files |-> [d.files EXCEPT ![label] = new]]

\* the tree after upload_single_image, and whether the request succeeded
UploadResult(d, className, classes_ok, classes, idx, ext, bytes) ==
    IF ~classes_ok THEN [ok |-> FALSE, disk |-> d]
    ELSE LET d1 == IF idx = 0 THEN WipeAndRecreate(classes) ELSE d
         IN IF className \notin Range(classes) THEN [ok |-> FALSE, disk |-> d1]
            ELSE IF bytes = "" THEN [ok |-> FALSE, disk |-> d1]
            ELSE [ok |-> TRUE,
                  disk |-> SaveImageBytes(d1, className, idx, UploadExt(ext), bytes)]

(* ------------------------------ index ---------------------------------- *)
NoneVectors == [none |-> TRUE, rows |-> <<>>]

EmptyDisk ==
    [kind |-> "dir", root |-> <<>>, plain |-> {}, files |-> [l \in Labels |-> <<>>]]

\* SupportIndex.__init__ ; the fields after the blank line are ghost state:
\* the position of a running build() and a record of what it did
NewSupportIndex(class_dirs, res, patch_size) ==
    [exists |-> TRUE,
     class_dirs |-> class_dirs, RES |-> res, PATCH |-> patch_size,
     vectors |-> NoneVectors, meta |-> <<>>,

     pc |-> "idle", ci |-> 1, cur |-> "", listing |-> <<>>, fi |-> 1,
     build_ok |-> FALSE, nimg |-> 0, skip_dir |-> FALSE, skip_file |-> FALSE,
     raised |-> "", bstable |-> TRUE, moved |-> FALSE]

NoIndex == [NewSupportIndex(<<>>, 0, 0) EXCEPT !.exists = FALSE]

\* name.startswith(".")
StartsWithDot(name) == name \in HiddenNames

\* variant of DiscoverClassDirs that takes every entry of the root
DiscoverAllEntries(d) == d.root

\* RagVisionService._discover_class_dirs when it returns: the entries of the
\* root that are directories and not hidden, in listing order
DiscoverClassDirs(d) ==
    SelectSeq(d.root, LAMBDA n : ~StartsWithDot(n) /\ n \notin d.plain)

\* the message of the RuntimeError _discover_class_dirs raises, "" if none
DiscoverError(d) ==
    IF d.kind = "missing" THEN "Support root not found"
    ELSE IF d.kind # "dir" THEN "Support root exists but is not a directory"
    ELSE IF DiscoverClassDirs(d) = <<>> THEN "No support class folders found"
    ELSE ""

\* class_score = {}
EmptyScore == [l \in {} |-> 0]

\* what the last call returned or raised; "none" before any call
NoRet == [op |-> "none", idx |-> DummyId, status |-> "", k |-> 0, q |-> "",
          class_score |-> EmptyScore, evidence |-> <<>>]

RECURSIVE UploadAll(_, _)
\* the tree after a sequence of upload requests
UploadAll(d, reqs) ==
    IF reqs = <<>> THEN d
    ELSE LET r == reqs[Len(reqs)]
         IN UploadResult(UploadAll(d, SubSeq(reqs, 1, Len(reqs) - 1)),
                         r[1], TRUE, r[2], r[3], r[4], r[5]).disk

\* support trees left by earlier uploads when the service starts: one
\* class with an image that does not decode next to an empty class, two
\* classes with one image each, and one class with two images
TwoClassTree == UploadAll(EmptyDisk, << <<"a", <<"a", "b">>, 0, ".png", "bad">> >>)
SeedTrees ==
    {TwoClassTree,
     UploadAll(EmptyDisk, << <<"a", <<"a", "b">>, 0, ".png", "img1">>,
                             <<"b", <<"a", "b">>, 1, ".png", "img2">> >>),
     UploadAll(EmptyDisk, << <<"a", <<"a">>, 0, ".png", "img2">>,
                             <<"a", <<"a">>, 1, ".jpg", "img1">> >>)}

(* --------------------------- analyze() state --------------------------- *)
\* encodedImage: data-URI prefix or not, what the payload decodes to ("bad"
\* when it is no image), and the side of the square image
GoodImage1 == [uri |-> FALSE, content |-> "img1", size |-> 3]
GoodImage2 == [uri |-> FALSE, content |-> "img2", size |-> 2]
UriImage == [uri |-> TRUE, content |-> "img1", size |-> 3]
BadImage == [uri |-> FALSE, content |-> "bad", size |-> 0]

\* the arguments of an analyze() call; prompts are symbol sequences
AnalyzeArgs(b64, res, patch_size, k, mpc, target) ==
    [b64 |-> b64, support_res |-> res, support_patch_size |-> patch_size,
     k_retrieval |-> k, max_patches_per_class |-> mpc, input_resolution |-> target,
     system_prompt |-> <<"a", "\n">>, user_prompt |-> <<" ", "a", " ", "a", " ">>]

\* calls that pass every stage on a good tree, and calls that fail in the
\* build (patch size 0), in preprocessing (no image, data-URI prefix) and in
\* retrieval (patch larger than the resolution). Lengths are in units of 112
\* pixels: support_res 2 is 224 pixels, 4 is 448.
AnalyzeParams ==
    {AnalyzeArgs(GoodImage1, 2, 1, 1, 1, 2),
     AnalyzeArgs(GoodImage2, 2, 1, 2, 2, 1),
     AnalyzeArgs(GoodImage2, 2, 2, 2, 0, 2),
     AnalyzeArgs(GoodImage1, 2, 0, 1, 1, 2),
     AnalyzeArgs(BadImage, 2, 1, 1, 1, 2),
     AnalyzeArgs(UriImage, 2, 1, 1, 1, 2),
     AnalyzeArgs(GoodImage1, 2, 3, 1, 1, 2),
     AnalyzeArgs(GoodImage2, 4, 4, 2, 1, 2)}

\* what generate() and batch_decode yield: text without flag or explanation,
\* a flag line, a flag line and an explanation, or an exception
ModelOutputs ==
    {<<"a", " ", "a">>,
     <<"a", "Flag", ":", " ", "true">>,
     <<"Flag", ":", "a", "\n", "Explanation", ":", "a">>}
GenerateError == "GenerateError"

\* the stages of analyze() in program order
StageOrder == <<"discover", "build", "preprocess", "retrieve", "generate", "postprocess">>

\* the value analyze() has not returned yet
NoOut == [pending |-> TRUE]

\* a request that has not called analyze(); the fields from stages on are
\* ghost state: the stages started, the stage that raised and its message,
\* the SupportIndex objects build() and retrieve() were called on, the model
\* instances used and the support tree as build() read it
NoReq ==
    [pc |-> "new", p |-> AnalyzeArgs(BadImage, 0, 0, 0, 0, 0),
     class_dirs |-> <<>>, query_img |-> "", query_side |-> 0, orig_size |-> 0,
     class_scores |-> EmptyScore, evidence |-> <<>>, rag_images |-> <<>>,
     user_content |-> <<>>, raw_response |-> <<>>, out |-> NoOut,

     stages |-> <<>>, failed |-> "", raised |-> "", built |-> None, used |-> None,
     clip_model |-> 0, vlm_model |-> 0, built_tree |-> EmptyDisk]

\* a loader class before its first construction: no weights in memory;
\* loads counts the calls of from_pretrained that put weights into memory,
\* model names the instance they produced
NewLoader == [initialized |-> FALSE, model |-> 0, loads |-> 0]

\* variant of ClipLoaderInit without the _initialized test
ClipLoaderInitAlways(loader) ==
    [initialized |-> TRUE, model |-> loader.loads + 1, loads |-> loader.loads + 1]

\* CLIPLocalModelLoader(...): __new__ hands out the one instance, __init__
\* returns at once when _initialized is set and loads the weights otherwise
ClipLoaderInit(loader) ==
    IF loader.initialized THEN loader
    ELSE [initialized |-> TRUE, model |-> loader.loads + 1, loads |-> loader.loads + 1]

\* QwenLocalModelLoader(...), written the same way
QwenLoaderInit(loader) ==
    IF loader.initialized THEN loader
    ELSE [initialized |-> TRUE, model |-> loader.loads + 1, loads |-> loader.loads + 1]

\* the process before RagVisionService() was called
NewSvc ==
    [initialized |-> FALSE, support_index |-> None, engine_index |-> None,
     preprocessor |-> None, vlm_model |-> 0,
     clip_loader |-> NewLoader, qwen_loader |-> NewLoader]

\* RagVisionService.__init__ on the singleton: nothing when _initialized is
\* set; else support_index = None, preprocessor = None and the warm-up, which
\* constructs the dummy SupportIndex (and with it the CLIP loader) and the
\* RagVisionInference around it (and with it the Qwen loader)
ServiceInitOf(s) ==
    IF s.initialized THEN s
    ELSE LET qwen == QwenLoaderInit(s.qwen_loader)
         IN [initialized |-> TRUE, support_index |-> None, engine_index |-> 0,
             preprocessor |-> None, vlm_model |-> qwen.model,
             clip_loader |-> ClipLoaderInit(s.clip_loader), qwen_loader |-> qwen]

\* the service after start-up
InitSvc == ServiceInitOf(NewSvc)
NewObj == [o \in ObjIds |-> NoIndex]
InitObj == [o \in ObjIds |-> IF o = 0 THEN NewSupportIndex(<<>>, 0, 0) ELSE NoIndex]
InitReq == [r \in Requests |-> NoReq]
InitPp == [text |-> <<>>, done |-> FALSE,
           flag |-> [kind |-> "none", val |-> <<>>],
           explanation |-> [kind |-> "none", val |-> <<>>]]

\* the UI before its first pipeline run; reached tells that the last run
\* got to the inference call, error that an upload of it was rejected
NoRun ==
    [class1 |-> "", class2 |-> "", files1 |-> <<>>, files2 |-> <<>>,
     reached |-> FALSE, error |-> FALSE]

\* the service after start-up: the warm-up SupportIndex exists, the support
\* tree is empty (first start) or what earlier uploads left
Init ==
    /\ disk \in {EmptyDisk, TwoClassTree}
    /\ index = [i \in IndexIds |->
                  IF i = DummyId THEN NewSupportIndex(<<>>, 0, 0) ELSE NoIndex]
    /\ clip_side \in EncoderSides
    /\ ret = NoRet
    /\ nup = 0
    /\ svc = InitSvc /\ obj = InitObj /\ req = InitReq /\ pp = InitPp
    /\ ui = NoRun

(* ------------------------------ upload --------------------------------- *)
\* ghost bookkeeping: bstable records that the tree did not change while
\* build() ran, moved that it changed after build() ended
NoteDiskChange(ix, changed) ==
    IF ~changed \/ ~ix.exists THEN ix
    ELSE IF ix.pc = "idle" THEN [ix EXCEPT !.moved = ix.build_ok]
    ELSE [ix EXCEPT !.bstable = FALSE]

Upload(className, classes_ok, classes, idx, ext, bytes) ==
    LET r == UploadResult(disk, className, classes_ok, classes, idx, ext, bytes)
    IN /\ nup < MaxUploads
       /\ nup' = nup + 1
       /\ disk' = r.disk
       /\ index' = [i \in IndexIds |-> NoteDiskChange(index[i], r.disk # disk)]
       /\ ret' = [NoRet EXCEPT !.op = "upload",
                               !.status = IF r.ok THEN "ok" ELSE "rejected"]
       /\ UNCHANGED <<clip_side, avars>>

(* --------------------------- construction ------------------------------ *)
\* the caller of the index is sequential: one call at a time
AllIdle == \A j \in IndexIds : index[j].pc = "idle"

\* RagVisionService.analyze up to the SupportIndex constructor; when class
\* discovery raises, no index is constructed
AnalyzeConstruct(i, res, patch_size) ==
    /\ i # DummyId
    /\ AllIdle
    /\ IF DiscoverError(disk) # ""
       THEN /\ ret' = [NoRet EXCEPT !.op = "construct", !.idx = i,
                                    !.status = "NoClassFolders"]
            /\ UNCHANGED index
       ELSE /\ index' = [index EXCEPT
                           ![i] = NewSupportIndex(DiscoverClassDirs(disk), res, patch_size)]
            /\ ret' = [NoRet EXCEPT !.op = "construct", !.idx = i, !.status = "ok"]
    /\ UNCHANGED <<disk, clip_side, nup, avars>>

(* ------------------------------ encoder -------------------------------- *)
\* integer unit vectors standing for L2-normalised token embeddings
UnitVectors == << <<1, 0>>, <<0, 1>>, <<-1, 0>>, <<0, -1>> >>

ContentCode(content) == IF content = "img1" THEN 0 ELSE 1

\* the CLIP vision model on one image: the patch tokens after the CLS token
\* is dropped, each a unit vector. The CLIP processor resizes every input
\* to the encoder's own input size, so the token count does not depend on
\* RES or PATCH.
VisionTokens(content, side) ==
    [t \in 1 .. side * side |-> UnitVectors[((ContentCode(content) + t - 1) % 4) + 1]]

\* int(math.sqrt(n)) for the token counts of the model
ISqrt(n) == CHOOSE s \in 0 .. n : s * s <= n /\ (s + 1) * (s + 1) > n

\* SupportIndex._get_patch_embeddings followed by the caller's
\* grid.reshape(-1, VISION_DIM): the rows of one image
GetPatchEmbeddings(content, side) ==
    LET tokens == VisionTokens(content, side)
        s == ISqrt(Len(tokens))
    IN [t \in 1 .. s * s |-> tokens[t]]

(* ------------------------------- build --------------------------------- *)
VALID_EXTS == {".jpg", ".jpeg", ".png", ".bmp"}

\* variant of IsImage without the extension filter
IsImageAnyFile(e) == TRUE

\* SupportIndex._is_image
IsImage(e) == e.ext \in VALID_EXTS

\* Image.open(path).convert("RGB") on the tree as it is now: the content,
\* or "bad" when the file is gone or does not decode
OpenImage(d, label, e) ==
    LET p == PosOf(d.files[label], e.idx, e.ext)
    IN IF p = 0 THEN "bad" ELSE d.files[label][p].content

\* SupportIndex._patch_coords (PATCH # 0): boxes in y-major order
PatchCoords(res, patch) ==
    LET n == res \div patch
    IN [b \in 1 .. n * n |->
          LET x == (b - 1) % n
              y == (b - 1) \div n
          IN <<x * patch, y * patch, x * patch + patch, y * patch + patch>>]

\* the PatchRecords appended for one image
MetaOf(label, e, boxes) ==
    [b \in 1 .. Len(boxes) |->
        [label |-> label, image_path |-> <<label, e.idx, e.ext>>,
         patch_idx |-> b - 1, box |-> boxes[b]]]

\* the rows appended for one image; path and tok are ghost fields naming
\* the image and the 0-based token the vector was computed from
RowsOf(label, e, content, side) ==
    LET vecs == GetPatchEmbeddings(content, side)
    IN [t \in 1 .. Len(vecs) |->
          [vec |-> vecs[t], path |-> <<label, e.idx, e.ext>>, tok |-> t - 1]]

\* np.vstack([self.vectors, vecs]), or vecs when self.vectors is None
VStack(vectors, rows) == [none |-> FALSE, rows |-> vectors.rows \o rows]

\* variant of AlreadyBuilt that never skips
AlreadyBuiltNever(ix) == FALSE

\* build(): "if self.vectors is not None: ... return"
AlreadyBuilt(ix) == ~ix.vectors.none

BuildRet(i, status) == [NoRet EXCEPT !.op = "build", !.idx = i, !.status = status]

\* build() up to the loop over class_dirs
BuildBegin(i) ==
    /\ index[i].exists /\ AllIdle
    /\ IF AlreadyBuilt(index[i])
       THEN /\ ret' = BuildRet(i, "skipped")
            /\ UNCHANGED index
       ELSE /\ index' = [index EXCEPT ![i] =
                  [@ EXCEPT !.pc = "classes", !.ci = 1, !.nimg = 0,
                            !.skip_dir = FALSE, !.skip_file = FALSE,
                            !.raised = "", !.bstable = TRUE, !.moved = FALSE]]
            /\ ret' = BuildRet(i, "running")
    /\ UNCHANGED <<disk, clip_side, nup, avars>>

\* one iteration of "for label, folder in self.class_dirs.items()" up to
\* the os.listdir of _process_folder
BuildNextClass(i) ==
    LET ix == index[i]
        label == ix.class_dirs[ix.ci]
    IN /\ ix.pc = "classes" /\ ix.ci <= Len(ix.class_dirs)
       /\ IF ~IsDir(disk, label)
          THEN /\ index' = [index EXCEPT ![i] =
                     [@ EXCEPT !.ci = @ + 1, !.skip_dir = TRUE]]
               /\ UNCHANGED ret
          ELSE IF ix.PATCH = 0
          THEN \* _patch_coords: RES // PATCH raises ZeroDivisionError
               /\ index' = [index EXCEPT ![i] =
                     [@ EXCEPT !.pc = "idle", !.raised = "ZeroDivisionError"]]
               /\ ret' = BuildRet(i, "ZeroDivisionError")
          ELSE /\ index' = [index EXCEPT ![i] =
                     [@ EXCEPT !.pc = "files", !.cur = label,
                               !.listing = disk.files[label], !.fi = 1]]
               /\ UNCHANGED ret
       /\ UNCHANGED <<disk, clip_side, nup, avars>>

\* one iteration of "for fname in os.listdir(folder)"
ProcessFile(i) ==
    LET ix == index[i]
        e == ix.listing[ix.fi]
        content == OpenImage(disk, ix.cur, e)
        boxes == PatchCoords(ix.RES, ix.PATCH)
    IN /\ ix.pc = "files" /\ ix.fi <= Len(ix.listing)
       /\ IF ~IsImage(e)
          THEN index' = [index EXCEPT ![i] = [@ EXCEPT !.fi = @ + 1]]
          ELSE IF content \notin ImageContents
          THEN index' = [index EXCEPT ![i] =
                  [@ EXCEPT !.fi = @ + 1, !.skip_file = TRUE]]
          ELSE index' = [index EXCEPT ![i] =
                  [@ EXCEPT !.fi = @ + 1, !.nimg = @ + 1,
                            !.vectors = VStack(@, RowsOf(ix.cur, e, content, clip_side)),
                            !.meta = @ \o MetaOf(ix.cur, e, boxes)]]
       /\ UNCHANGED <<disk, clip_side, ret, nup, avars>>

\* the iteration of "for fname in os.listdir(folder)" in which
\* _get_patch_embeddings raises (the encoder runs out of memory, say) for an
\* image that decoded: no except clause covers the call, build() ends with
\* the exception and self.vectors and self.meta stay as they are
ProcessFileEncoderError(i) ==
    LET ix == index[i]
        e == ix.listing[ix.fi]
    IN /\ ix.pc = "files" /\ ix.fi <= Len(ix.listing)
       /\ IsImage(e) /\ OpenImage(disk, ix.cur, e) \in ImageContents
       /\ index' = [index EXCEPT ![i] =
             [@ EXCEPT !.pc = "idle", !.raised = "EncoderError", !.cur = "",
                       !.listing = <<>>, !.fi = 1]]
       /\ ret' = BuildRet(i, "EncoderError")
       /\ UNCHANGED <<disk, clip_side, nup, avars>>

\* _process_folder returns after the last file
FolderDone(i) ==
    LET ix == index[i]
    IN /\ ix.pc = "files" /\ ix.fi > Len(ix.listing)
       /\ index' = [index EXCEPT ![i] =
             [@ EXCEPT !.pc = "classes", !.ci = @ + 1, !.cur = "",
                       !.listing = <<>>, !.fi = 1]]
       /\ UNCHANGED <<disk, clip_side, ret, nup, avars>>

\* build() after the loop
BuildFinish(i) ==
    LET ix == index[i]
    IN /\ ix.pc = "classes" /\ ix.ci > Len(ix.class_dirs)
       /\ IF ix.vectors.none
          THEN /\ index' = [index EXCEPT ![i] =
                     [@ EXCEPT !.pc = "idle", !.raised = "EmptyIndexError"]]
               /\ ret' = BuildRet(i, "EmptyIndexError")
          ELSE /\ index' = [index EXCEPT ![i] =
                     [@ EXCEPT !.pc = "idle", !.build_ok = TRUE]]
               /\ ret' = BuildRet(i, "ok")
       /\ UNCHANGED <<disk, clip_side, nup, avars>>

\* the images a build() over tree d keeps: for each class folder that
\* exists, in class_dirs order, its files with a recognized extension that
\* decode, in listing order
KeptFiles(d, label) ==
    SelectSeq(d.files[label],
              LAMBDA e : e.ext \in VALID_EXTS /\ e.content \in ImageContents)

RECURSIVE KeptEmbeddings(_, _, _)
KeptEmbeddings(d, dirs, side) ==
    IF dirs = <<>> THEN <<>>
    ELSE LET label == Head(dirs)
             kept == IF IsDir(d, label) THEN KeptFiles(d, label) ELSE <<>>
             RECURSIVE Rows(_)
             Rows(n) == IF n = 0 THEN <<>>
                        ELSE Rows(n - 1) \o RowsOf(label, kept[n], kept[n].content, side)
         IN Rows(Len(kept)) \o KeptEmbeddings(d, Tail(dirs), side)

RECURSIVE KeptRecords(_, _, _)
KeptRecords(d, dirs, boxes) ==
    IF dirs = <<>> THEN <<>>
    ELSE LET label == Head(dirs)
             kept == IF IsDir(d, label) THEN KeptFiles(d, label) ELSE <<>>
             RECURSIVE Recs(_)
             Recs(n) == IF n = 0 THEN <<>>
                        ELSE Recs(n - 1) \o MetaOf(label, kept[n], boxes)
         IN Recs(Len(kept)) \o KeptRecords(d, Tail(dirs), boxes)

\* build() as one step on index object ix over tree d: the object
\* afterwards and what the call returned or raised
BuildWhole(ix, d, side) ==
    LET folders == SelectSeq(ix.class_dirs, LAMBDA l : IsDir(d, l))
        rows == KeptEmbeddings(d, ix.class_dirs, side)
        boxes == IF folders = <<>> THEN <<>> ELSE PatchCoords(ix.RES, ix.PATCH)
    IN IF AlreadyBuilt(ix) THEN [ix |-> ix, status |-> "skipped"]
       ELSE IF folders # <<>> /\ ix.PATCH = 0
       THEN [ix |-> [ix EXCEPT !.raised = "ZeroDivisionError"],
             status |-> "ZeroDivisionError"]
       ELSE IF rows = <<>>
       THEN [ix |-> [ix EXCEPT !.raised = "EmptyIndexError"],
             status |-> "EmptyIndexError"]
       ELSE [ix |-> [ix EXCEPT !.vectors = VStack(NoneVectors, rows),
                               !.meta = KeptRecords(d, ix.class_dirs, boxes),
                               !.build_ok = TRUE],
             status |-> "ok"]

(* ------------------------------ retrieve ------------------------------- *)
Dot(u, v) == u[1] * v[1] + u[2] * v[2]

\* sims = S @ q
Sims(rows, q) == [j \in 1 .. Len(rows) |-> Dot(rows[j].vec, q)]

\* sims.argsort(): the positions in ascending order of similarity; equal
\* similarities come in ascending or descending position order
ArgSort(sims, tie) ==
    LET Before(i, j) == IF tie = "stable" THEN i < j ELSE i > j
        Rank(j) == Cardinality({i \in DOMAIN sims :
                       sims[i] < sims[j] \/ (sims[i] = sims[j] /\ Before(i, j))}) + 1
    IN [p \in DOMAIN sims |-> CHOOSE j \in DOMAIN sims : Rank(j) = p]

\* Python's seq[start:]
PySliceFrom(seq, start) ==
    LET n == Len(seq)
        s == IF start < 0 THEN Max(n + start, 0) ELSE Min(start, n)
    IN SubSeq(seq, s + 1, n)

\* Python's seq[::-1]
Reversed(seq) == [n \in 1 .. Len(seq) |-> seq[Len(seq) + 1 - n]]

\* variant of TopK that slices the low end of the ascending order
TopKLowest(sims, k, tie) == Reversed(SubSeq(ArgSort(sims, tie), 1, Min(k, Len(sims))))

\* top = sims.argsort()[-k:][::-1]
TopK(sims, k, tie) == Reversed(PySliceFrom(ArgSort(sims, tie), 0 - k))

\* the items appended for query patch qi (1-based) in the inner loop
EvidenceOf(meta, sims, top, qi) ==
    [n \in 1 .. Len(top) |->
        [query_patch_idx |-> qi - 1, sim |-> sims[top[n]],
         ref |-> meta[top[n]], row |-> top[n]]]

RECURSIVE EmitAll(_, _, _, _, _, _)
\* the evidence list after the first nq query patches, before the sort
EmitAll(rows, meta, qvecs, k, tie, nq) ==
    IF nq = 0 THEN <<>>
    ELSE LET sims == Sims(rows, qvecs[nq])
         IN EmitAll(rows, meta, qvecs, k, tie, nq - 1)
              \o EvidenceOf(meta, sims, TopK(sims, k, tie), nq)

\* variant of Accumulate that overwrites the entry
AccumulateOverwrite(score, label, sim) ==
    [l \in DOMAIN score \cup {label} |-> IF l = label THEN sim ELSE score[l]]

\* class_score[label] = class_score.get(label, 0.0) + sim
Accumulate(score, label, sim) ==
    [l \in DOMAIN score \cup {label} |->
        (IF l \in DOMAIN score THEN score[l] ELSE 0) + (IF l = label THEN sim ELSE 0)]

RECURSIVE ClassScore(_, _)
\* class_score after the first n emitted items
ClassScore(emitted, n) ==
    IF n = 0 THEN EmptyScore
    ELSE Accumulate(ClassScore(emitted, n - 1), emitted[n].ref.label, emitted[n].sim)

\* variant of SortBySimDesc that leaves the list as emitted
SortNothing(ev) == ev

\* evidence.sort(key=lambda e: e["sim"], reverse=True): a stable sort
SortBySimDesc(ev) ==
    LET Rank(i) == Cardinality({j \in DOMAIN ev :
                       ev[j].sim > ev[i].sim \/ (ev[j].sim = ev[i].sim /\ j < i)}) + 1
    IN [p \in DOMAIN ev |-> ev[CHOOSE i \in DOMAIN ev : Rank(i) = p]]

\* variant of NotBuilt with the test inverted
NotBuiltInverted(ix) == ~ix.vectors.none /\ ix.meta # <<>>

\* retrieve(): "if self.vectors is None or not self.meta: raise"
NotBuilt(ix) == ix.vectors.none \/ ix.meta = <<>>

\* self.meta[idx] raises IndexError for a selected row without a PatchRecord
MetaIndexError(rows, nmeta, qvecs, k, tie) ==
    \E qi \in DOMAIN qvecs :
        LET top == TopK(Sims(rows, qvecs[qi]), k, tie)
        IN \E n \in DOMAIN top : top[n] > nmeta

Retrieve(i, q, k, tie) ==
    LET ix == index[i]
        rows == ix.vectors.rows
        qvecs == GetPatchEmbeddings(q, clip_side)
        emitted == EmitAll(rows, ix.meta, qvecs, k, tie, Len(qvecs))
        base == [NoRet EXCEPT !.op = "retrieve", !.idx = i]
    IN /\ ix.exists /\ AllIdle
       /\ ret' = IF NotBuilt(ix) THEN [base EXCEPT !.status = "NotBuiltError"]
                 ELSE IF MetaIndexError(rows, Len(ix.meta), qvecs, k, tie)
                 THEN [base EXCEPT !.status = "IndexError"]
                 ELSE [base EXCEPT !.status = "ok", !.k = k, !.q = q,
                                   !.class_score = ClassScore(emitted, Len(emitted)),
                                   !.evidence = SortBySimDesc(emitted)]
       /\ UNCHANGED <<disk, index, clip_side, nup, avars>>

(* ---------------------------- postprocessor ---------------------------- *)
\* A model output is a sequence of symbols. "Flag", "Explanation", "true"
\* and "false" stand for those words in any letter case, "a" for any other
\* word character, ":" for ':' or '=', " " for a blank and "\n" for a line
\* break.
Symbols == {"a", "true", "false", "Flag", "Explanation", ":", " ", "\n"}

\* [A-Za-z0-9_]
IsWordChar(c) == c \in {"a", "true", "false", "Flag", "Explanation"}
\* \s, and the characters str.strip() and str.split() treat as blank
IsSpace(c) == c \in {" ", "\n"}
\* the characters "." matches
IsNotNewline(c) == c # "\n"

\* the three character classes as sets
WordChars == {c \in Symbols : IsWordChar(c)}
Spaces == {c \in Symbols : IsSpace(c)}
LineChars == {c \in Symbols : IsNotNewline(c)}

\* length of the longest run of characters of chars that starts at s
RunLen(text, s, chars) ==
    LET ok == {n \in 0 .. Len(text) + 1 - s : \A m \in s .. s + n - 1 : text[m] \in chars}
    IN IF s > Len(text) THEN 0 ELSE CHOOSE n \in ok : \A m \in ok : m <= n

\* \s*[:=]\s*.+ tried at position p: the last position of the match, 0 when
\* there is none. Both \s* are greedy; the second gives characters back
\* until ".+" finds a character that is not a line break, and ".+" then runs
\* to the end of that line.
FlagTailEnd(text, p) ==
    LET q == p + RunLen(text, p, Spaces)
        w == RunLen(text, q + 1, Spaces)
        starts == {v \in q + 1 .. q + 1 + w : v <= Len(text) /\ IsNotNewline(text[v])}
        v0 == CHOOSE v \in starts : \A u \in starts : u <= v
    IN IF q > Len(text) \/ text[q] # ":" \/ starts = {} THEN 0
       ELSE v0 + RunLen(text, v0, LineChars) - 1

\* ([A-Za-z0-9_]*Flag\s*[:=]\s*.+) tried at position s: the last position of
\* the match, 0 when there is none. The greedy [A-Za-z0-9_]* takes the whole
\* run of word characters and gives them back one at a time.
FlagMatchEnd(text, s) ==
    LET n == RunLen(text, s, WordChars)
        taken == {i \in 0 .. n - 1 :
                     text[s + i] = "Flag" /\ FlagTailEnd(text, s + i + 1) # 0}
        i0 == CHOOSE i \in taken : \A j \in taken : j <= i
    IN IF taken = {} THEN 0 ELSE FlagTailEnd(text, s + i0 + 1)

RECURSIVE FindAllFlags(_, _)
\* re.findall(full_line_pattern, text, flags=re.IGNORECASE) from position s:
\* the matches from left to right, each search resuming after the last match
FindAllFlags(text, s) ==
    IF s > Len(text) THEN <<>>
    ELSE LET e == FlagMatchEnd(text, s)
         IN IF e = 0 THEN FindAllFlags(text, s + 1)
            ELSE <<SubSeq(text, s, e)>> \o FindAllFlags(text, e + 1)

\* str.strip()
Strip(text) ==
    LET keep == {n \in DOMAIN text : ~IsSpace(text[n])}
        lo == CHOOSE n \in keep : \A m \in keep : n <= m
        hi == CHOOSE n \in keep : \A m \in keep : m <= n
    IN IF keep = {} THEN <<>> ELSE SubSeq(text, lo, hi)

\* len(cleaned.split())
TokenCount(text) ==
    Cardinality({n \in DOMAIN text :
                    ~IsSpace(text[n]) /\ (n = 1 \/ IsSpace(text[n - 1]))})

\* values of the flag and explanation fields
NoneValue == [kind |-> "none", val |-> <<>>]
StrValue(text) == [kind |-> "str", val |-> text]
BoolValue(b) == [kind |-> "bool", val |-> IF b THEN <<"true">> ELSE <<"false">>]

\* variant of LastMatch that takes the first match
FirstMatch(matches) == matches[1]

\* matches[-1]
LastMatch(matches) == matches[Len(matches)]

\* Postprocessor._extract_flag
ExtractFlag(text) ==
    LET matches == FindAllFlags(text, 1)
        cleaned == Strip(text)
    IN IF matches # <<>> THEN StrValue(Strip(LastMatch(matches)))
       ELSE IF cleaned = <<"true">> THEN BoolValue(TRUE)
       ELSE IF cleaned = <<"false">> THEN BoolValue(FALSE)
       ELSE IF TokenCount(cleaned) = 1 THEN StrValue(cleaned)
       ELSE NoneValue

\* Explanation\s*[:=]\s* tried at position s: the last position of the
\* match, 0 when there is none
DelimiterEnd(text, s) ==
    LET q == s + 1 + RunLen(text, s + 1, Spaces)
    IN IF text[s] # "Explanation" \/ q > Len(text) \/ text[q] # ":" THEN 0
       ELSE q + RunLen(text, q + 1, Spaces)

RECURSIVE SplitParts(_, _, _)
\* re.split(r"Explanation\s*[:=]\s*", text, flags=re.IGNORECASE): the parts
\* from position s on, from being the start of the part under way
SplitParts(text, s, from) ==
    IF s > Len(text) THEN <<SubSeq(text, from, Len(text))>>
    ELSE LET e == DelimiterEnd(text, s)
         IN IF e = 0 THEN SplitParts(text, s + 1, from)
            ELSE <<SubSeq(text, from, s - 1)>> \o SplitParts(text, e + 1, e + 1)

\* variant of ExtractExplanation that takes the text after the first delimiter
ExtractExplanationFirst(text) ==
    LET parts == SplitParts(text, 1, 1)
        explanation == Strip(parts[Min(2, Len(parts))])
    IN IF Len(parts) <= 1 THEN NoneValue
       ELSE IF explanation # <<>> THEN StrValue(explanation) ELSE NoneValue

\* Postprocessor._extract_explanation
ExtractExplanation(text) ==
    LET parts == SplitParts(text, 1, 1)
        explanation == Strip(parts[Len(parts)])
    IN IF Len(parts) <= 1 THEN NoneValue
       ELSE IF explanation # <<>> THEN StrValue(explanation) ELSE NoneValue

\* Postprocessor.parse on the text under test
Parse ==
    /\ ~pp.done
    /\ pp' = [pp EXCEPT !.done = TRUE,
                        !.flag = ExtractFlag(pp.text),
                        !.explanation = ExtractExplanation(pp.text)]
    /\ UNCHANGED <<disk, index, clip_side, ret, nup, svc, obj, req, ui>>

(* ------------------------------ analyze -------------------------------- *)
\* variant of ErrorRecord that drops the message
ErrorRecordNoMessage(r, msg) == [success |-> FALSE, error |-> "", imageId |-> r]

\* the value analyze() returns from its except branch
ErrorRecord(r, msg) == [success |-> FALSE, error |-> msg, imageId |-> r]

\* variant of Failed in which the exception does not end the call
FailedKeepsGoing(rq, r, stage, msg) ==
    [rq EXCEPT !.failed = stage, !.raised = msg]

\* "except Exception as e": the call ends with the failure record
Failed(rq, r, stage, msg) ==
    [rq EXCEPT !.pc = "done", !.failed = stage, !.raised = msg,
               !.out = ErrorRecord(r, msg)]

\* the value analyze() returns at the end of its try block
SuccessRecord(r, flag, explanation, class_scores, raw, orig_size) ==
    [success |-> TRUE, flag |-> flag, explanation |-> explanation,
     class_scores |-> class_scores, raw_response |-> raw,
     original_size |-> orig_size, imageId |-> r]

\* RagVisionService(): the start-up of the process, and every later call of
\* the constructor
ServiceInit ==
    /\ svc' = ServiceInitOf(svc)
    /\ obj' = IF svc.initialized THEN obj
              ELSE [obj EXCEPT ![0] = NewSupportIndex(<<>>, 0, 0)]
    /\ UNCHANGED <<disk, index, clip_side, ret, nup, req, pp, ui>>

\* analyze() up to the end of class discovery: the new ImagePreprocessor is
\* stored on the service, then the support root is scanned
AnalyzeBegin(r, p) ==
    LET rq == [req[r] EXCEPT !.p = p, !.stages = <<"discover">>]
        msg == DiscoverError(disk)
    IN /\ svc.initialized
       /\ req[r].pc = "new"
       /\ svc' = [svc EXCEPT !.preprocessor = p.input_resolution]
       /\ req' = [req EXCEPT ![r] =
             IF msg # "" THEN Failed(rq, r, "discover", msg)
             ELSE [rq EXCEPT !.pc = "discovered",
                             !.class_dirs = DiscoverClassDirs(disk)]]
       /\ UNCHANGED <<disk, index, clip_side, ret, nup, obj, pp, ui>>

\* self.support_index = SupportIndex(class_dirs, res, patch_size); the
\* constructor calls CLIPLocalModelLoader(...) and keeps its get_model()
ConstructIndex(r) ==
    LET rq == req[r]
        clip == ClipLoaderInit(svc.clip_loader)
    IN /\ rq.pc = "discovered"
       /\ obj' = [obj EXCEPT ![r] = NewSupportIndex(rq.class_dirs, rq.p.support_res,
                                                    rq.p.support_patch_size)]
       /\ svc' = [svc EXCEPT !.support_index = r, !.clip_loader = clip]
       /\ req' = [req EXCEPT ![r] = [rq EXCEPT !.pc = "constructed",
                                               !.stages = Append(@, "build"),
                                               !.clip_model = clip.model]]
       /\ UNCHANGED <<disk, index, clip_side, ret, nup, pp, ui>>

\* self.support_index.build(): build() on the object the service field
\* refers to at this moment
BuildIndex(r) ==
    LET rq == req[r]
        o == svc.support_index
        b == BuildWhole(obj[o], disk, clip_side)
    IN /\ rq.pc = "constructed"
       /\ obj' = [obj EXCEPT ![o] = b.ix]
       /\ req' = [req EXCEPT ![r] =
             IF b.status \in {"ok", "skipped"}
             THEN [rq EXCEPT !.pc = "built", !.built = o, !.built_tree = disk]
             ELSE Failed([rq EXCEPT !.built = o, !.built_tree = disk],
                         r, "build", b.status)]
       /\ UNCHANGED <<disk, index, clip_side, ret, nup, svc, pp, ui>>

\* self.engine.support_index = self.support_index
AssignIndex(r) ==
    /\ req[r].pc = "built"
    /\ svc' = [svc EXCEPT !.engine_index = svc.support_index]
    /\ req' = [req EXCEPT ![r] = [@ EXCEPT !.pc = "assigned"]]
    /\ UNCHANGED <<disk, index, clip_side, ret, nup, obj, pp, ui>>

\* ImagePreprocessor.decode_base64_to_pil: base64.b64decode is given the
\* string as it came. Of a 'data:image/png;base64,' prefix it drops ':', ';'
\* and ',' and takes the other 19 characters as data, which leaves the
\* payload misaligned: binascii.Error. Bytes that are no image make
\* Image.open raise.
DecodeBase64ToPil(b64) ==
    IF b64.uri THEN [error |-> "binascii.Error", content |-> "bad", size |-> 0]
    ELSE IF b64.content \notin ImageContents
    THEN [error |-> "UnidentifiedImageError", content |-> "bad", size |-> 0]
    ELSE [error |-> "", content |-> b64.content, size |-> b64.size]

\* self.preprocessor.preprocess(b64_image): the decoded image is resized to
\* the target size of the preprocessor the service field refers to at this
\* moment
Preprocess(r) ==
    LET rq == [req[r] EXCEPT !.stages = Append(@, "preprocess")]
        img == DecodeBase64ToPil(rq.p.b64)
    IN /\ req[r].pc = "assigned"
       /\ req' = [req EXCEPT ![r] =
             IF img.error # ""
             THEN Failed(rq, r, "preprocess", img.error)
             ELSE [rq EXCEPT !.pc = "preprocessed", !.query_img = img.content,
                             !.orig_size = img.size,
                             !.query_side = svc.preprocessor]]
       /\ UNCHANGED <<disk, index, clip_side, ret, nup, svc, obj, pp, ui>>

\* SupportIndex.retrieve(query_img, k) on index object ix: what it raises,
\* or the ClassScoreMap and the evidence list
RetrieveOn(ix, q, k, tie, side) ==
    LET rows == ix.vectors.rows
        qvecs == GetPatchEmbeddings(q, side)
        emitted == EmitAll(rows, ix.meta, qvecs, k, tie, Len(qvecs))
    IN IF NotBuilt(ix)
       THEN [status |-> "NotBuiltError", class_score |-> EmptyScore, evidence |-> <<>>]
       ELSE IF MetaIndexError(rows, Len(ix.meta), qvecs, k, tie)
       THEN [status |-> "IndexError", class_score |-> EmptyScore, evidence |-> <<>>]
       ELSE [status |-> "ok", class_score |-> ClassScore(emitted, Len(emitted)),
             evidence |-> SortBySimDesc(emitted)]

\* RagVisionInference.run up to the return of retrieve(): the index queried
\* is the one the engine field refers to at this moment
RunRetrieve(r, tie) ==
    LET rq == [req[r] EXCEPT !.stages = Append(@, "retrieve"),
                             !.used = svc.engine_index]
        res == RetrieveOn(obj[svc.engine_index], rq.query_img, rq.p.k_retrieval,
                          tie, clip_side)
    IN /\ req[r].pc = "preprocessed"
       /\ req' = [req EXCEPT ![r] =
             IF res.status # "ok" THEN Failed(rq, r, "retrieve", res.status)
             ELSE [rq EXCEPT !.pc = "retrieved", !.class_scores = res.class_score,
                             !.evidence = res.evidence]]
       /\ UNCHANGED <<disk, index, clip_side, ret, nup, svc, obj, pp, ui>>

RECURSIVE LabelOrder(_)
\* the keys of by_label in insertion order: the labels of the evidence
\* list by first appearance
LabelOrder(evidence) ==
    IF evidence = <<>> THEN <<>>
    ELSE LET before == LabelOrder(SubSeq(evidence, 1, Len(evidence) - 1))
             label == evidence[Len(evidence)].ref.label
         IN IF label \in Range(before) THEN before ELSE Append(before, label)

\* variant of PySliceTo that keeps the last items
PySliceLast(seq, stop) == SubSeq(seq, Len(seq) - Min(Max(stop, 0), Len(seq)) + 1, Len(seq))

\* Python's seq[:stop]
PySliceTo(seq, stop) ==
    LET n == Len(seq)
        e == IF stop < 0 THEN Max(n + stop, 0) ELSE Min(stop, n)
    IN SubSeq(seq, 1, e)

\* by_label[label] after the truncation
ByLabel(evidence, label, max_per_class) ==
    PySliceTo(SelectSeq(evidence, LAMBDA e : e.ref.label = label), max_per_class)

RECURSIVE Retained(_, _, _)
\* the evidence items build_rag_images crops, in the order of its two loops
Retained(evidence, labels, max_per_class) ==
    IF labels = <<>> THEN <<>>
    ELSE ByLabel(evidence, Head(labels), max_per_class)
           \o Retained(evidence, Tail(labels), max_per_class)

\* the query image as an element of rag_images
QueryImage(content) ==
    [kind |-> "query", content |-> content, canvas |-> 0, box |-> <<>>, item |-> <<>>]

\* the side crop_patch resizes to: 224 pixels
CROP_SIDE == 2

\* crop_patch(ref["image_path"], ref["box"]): the file is opened again, on
\* the tree as it is now, resized to 224 x 224 (canvas) and cropped with the
\* box of the record; content is "bad" when opening raises
CropPatch(d, e) ==
    LET path == e.ref.image_path
    IN [kind |-> "patch",
        content |-> OpenImage(d, path[1], [idx |-> path[2], ext |-> path[3]]),
        canvas |-> CROP_SIDE, box |-> e.ref.box, item |-> e]

\* RagVisionInference.build_rag_images (before any crop_patch raises)
BuildRagImages(query_img, evidence, max_per_class, d) ==
    LET kept == Retained(evidence, LabelOrder(evidence), max_per_class)
    IN <<QueryImage(query_img)>> \o [n \in 1 .. Len(kept) |-> CropPatch(d, kept[n])]

\* variant of UserContent with the text first
UserContentTextFirst(rag_images, user_prompt) ==
    <<[type |-> "text", text |-> Strip(user_prompt)]>>
      \o [n \in 1 .. Len(rag_images) |-> [type |-> "image", text |-> <<>>]]

\* the content of the user turn of messages
UserContent(rag_images, user_prompt) ==
    [n \in 1 .. Len(rag_images) |-> [type |-> "image", text |-> <<>>]]
      \o <<[type |-> "text", text |-> Strip(user_prompt)]>>

\* run() from build_rag_images to the construction of messages
RunPrompt(r) ==
    LET rq == req[r]
        imgs == BuildRagImages(rq.query_img, rq.evidence,
                               rq.p.max_patches_per_class, disk)
    IN /\ rq.pc = "retrieved"
       /\ req' = [req EXCEPT ![r] =
             IF \E n \in DOMAIN imgs : imgs[n].content \notin ImageContents
             THEN Failed(rq, r, "retrieve", "FileNotFoundError")
             ELSE [rq EXCEPT !.pc = "prompted", !.rag_images = imgs,
                             !.user_content = UserContent(imgs, rq.p.user_prompt)]]
       /\ UNCHANGED <<disk, index, clip_side, ret, nup, svc, obj, pp, ui>>

\* run() from apply_chat_template into self.vlm_model.generate
GenerateBegin(r) ==
    /\ req[r].pc = "prompted"
    /\ req' = [req EXCEPT ![r] = [@ EXCEPT !.pc = "generating",
                                           !.stages = Append(@, "generate"),
                                           !.vlm_model = svc.vlm_model]]
    /\ UNCHANGED <<disk, index, clip_side, ret, nup, svc, obj, pp, ui>>

\* variant of Returned that fails the call when no flag is parsed
ReturnedOnlyWithFlag(rq, r, raw) ==
    IF ExtractFlag(raw).kind = "none"
    THEN Failed([rq EXCEPT !.raw_response = raw], r, "postprocess", "no flag")
    ELSE [rq EXCEPT !.pc = "done", !.raw_response = raw,
                    !.out = SuccessRecord(r, ExtractFlag(raw), ExtractExplanation(raw),
                                          rq.class_scores, raw, rq.orig_size)]

\* analyze() from the return of run() on: postprocessor.parse and the
\* success record
Returned(rq, r, raw) ==
    [rq EXCEPT !.pc = "done", !.raw_response = raw,
               !.out = SuccessRecord(r, ExtractFlag(raw), ExtractExplanation(raw),
                                     rq.class_scores, raw, rq.orig_size)]

\* generate() ends: it raises, or its decoded text goes through
\* postprocessing into the result of analyze()
GenerateEnd(r, outcome) ==
    LET rq == req[r]
    IN /\ rq.pc = "generating"
       /\ req' = [req EXCEPT ![r] =
             IF outcome = <<GenerateError>> THEN Failed(rq, r, "generate", GenerateError)
             ELSE Returned([rq EXCEPT !.stages = Append(@, "postprocess")], r, outcome)]
       /\ UNCHANGED <<disk, index, clip_side, ret, nup, svc, obj, pp, ui>>

(* ----------------------------- UI pipeline ----------------------------- *)
\* the image files a gallery can hold: an image and an empty file
GalleryFiles == {[ext |-> ".png", bytes |-> "img1"],
                 [ext |-> ".jpg", bytes |-> ""]}
Galleries == UNION {[1 .. n -> GalleryFiles] : n \in 0 .. MaxGallery}

RECURSIVE UploadBatch(_, _, _, _, _)
\* upload_batch(file_list, class_name, start_index) on tree d: one upload
\* request per file with indexes counting up from start_index, stopping at
\* the first request that is rejected; an empty list sends nothing.
\* upload_support_single_image of frontend.services is taken to post its
\* arguments to /support/upload/image and to return the success field.
UploadBatch(d, file_list, class_name, classes, start_index) ==
    IF file_list = <<>> THEN [ok |-> TRUE, disk |-> d, idx |-> start_index]
    ELSE LET f == Head(file_list)
             r == UploadResult(d, class_name, TRUE, classes, start_index, f.ext, f.bytes)
         IN IF ~r.ok THEN [ok |-> FALSE, disk |-> r.disk, idx |-> start_index]
            ELSE UploadBatch(r.disk, Tail(file_list), class_name, classes,
                             start_index + 1)

\* run_pipeline with valid labels and prompts: the first gallery is uploaded
\* from index 0, the second from the next index, and the inference call
\* follows when no upload was rejected
RunPipeline(class1, class2, files1, files2) ==
    LET classes == <<class1, class2>>
        b1 == UploadBatch(disk, files1, class1, classes, 0)
        b2 == UploadBatch(b1.disk, files2, class2, classes, b1.idx)
        ok == b1.ok /\ b2.ok
    IN /\ disk' = IF b1.ok THEN b2.disk ELSE b1.disk
       /\ ui' = [class1 |-> class1, class2 |-> class2, files1 |-> files1,
                 files2 |-> files2, reached |-> ok, error |-> ~ok]
       /\ UNCHANGED <<index, clip_side, ret, nup, svc, obj, req, pp>>

(* --------------------------- specifications ---------------------------- *)
BuildStep ==
    \/ \E i \in IndexIds : BuildBegin(i)
    \/ \E i \in IndexIds : BuildNextClass(i)
    \/ \E i \in IndexIds : ProcessFile(i)
    \/ \E i \in IndexIds : FolderDone(i)
    \/ \E i \in IndexIds : BuildFinish(i)

\* the index under construction and build() while upload requests rewrite
\* the support tree
Next ==
    \/ \E c \in Labels, cl \in ClassLists, n \in UploadIndexes, f \in UploadFiles :
          Upload(c, TRUE, cl, n, f.ext, f.bytes)
    \/ \E n \in UploadIndexes : Upload("a", FALSE, <<>>, n, ".png", "img1")
    \/ \E i \in IndexIds, rp \in SupportParams : AnalyzeConstruct(i, rp[1], rp[2])
    \/ BuildStep

Spec == Init /\ [][Next]_vars

InitRetrieve ==
    /\ disk \in SeedTrees
    /\ index = [i \in IndexIds |->
                  IF i = DummyId THEN NewSupportIndex(<<>>, 0, 0) ELSE NoIndex]
    /\ clip_side \in EncoderSides
    /\ ret = NoRet
    /\ nup = 0
    /\ svc = InitSvc /\ obj = InitObj /\ req = InitReq /\ pp = InitPp
    /\ ui = NoRun

\* the index built over a support tree that stays as it is, with an encoder
\* that may fail, and retrieve()
NextRetrieve ==
    \/ \E i \in IndexIds, rp \in SupportParams : AnalyzeConstruct(i, rp[1], rp[2])
    \/ BuildStep
    \/ \E i \in IndexIds : ProcessFileEncoderError(i)
    \/ \E i \in IndexIds, q \in ImageContents, k \in 0 .. MaxK, tie \in TieOrders :
          Retrieve(i, q, k, tie)

SpecRetrieve == InitRetrieve /\ [][NextRetrieve]_vars

\* support roots an analyze() call can meet: two classes next to a hidden
\* folder and a plain file, one class with two images, a class whose only
\* image does not decode, no class folder at all, a missing root and a
\* root that is a plain file
MixedTree ==
    [kind |-> "dir", root |-> <<".cache", "a", "notes", "b">>, plain |-> {"notes"},
     files |-> [l \in Labels |->
                   IF l = "a" THEN <<[idx |-> 0, ext |-> ".png", content |-> "img1"]>>
                   ELSE <<[idx |-> 1, ext |-> ".png", content |-> "img2"]>>]]
AnalyzeTrees ==
    {MixedTree,
     UploadAll(EmptyDisk, << <<"a", <<"a">>, 0, ".png", "img2">>,
                             <<"a", <<"a">>, 1, ".jpg", "img1">> >>),
     TwoClassTree,
     [EmptyDisk EXCEPT !.root = <<".cache", "notes">>, !.plain = {"notes"}],
     [EmptyDisk EXCEPT !.kind = "missing"],
     [EmptyDisk EXCEPT !.kind = "file"]}

InitAnalyze ==
    /\ disk \in AnalyzeTrees
    /\ index = [i \in IndexIds |->
                  IF i = DummyId THEN NewSupportIndex(<<>>, 0, 0) ELSE NoIndex]
    /\ clip_side \in EncoderSides
    /\ ret = NoRet
    /\ nup = 0
    /\ svc = NewSvc /\ obj = NewObj /\ req = InitReq /\ pp = InitPp
    /\ ui = NoRun

\* The start-up and analyze() calls on the one service. analyze() is a plain method that
\* takes no lock, so calls made from different threads interleave between
\* any two of its statements; the steps are cut where a call reads or
\* writes a field of the service, the tree on disk or the generative model.
NextAnalyze ==
    \/ ServiceInit
    \/ \E r \in Requests, p \in AnalyzeParams : AnalyzeBegin(r, p)
    \/ \E r \in Requests : ConstructIndex(r)
    \/ \E r \in Requests : BuildIndex(r)
    \/ \E r \in Requests : AssignIndex(r)
    \/ \E r \in Requests : Preprocess(r)
    \/ \E r \in Requests, tie \in TieOrders : RunRetrieve(r, tie)
    \/ \E r \in Requests : RunPrompt(r)
    \/ \E r \in Requests : GenerateBegin(r)
    \/ \E r \in Requests, outcome \in ModelOutputs \cup {<<GenerateError>>} :
          GenerateEnd(r, outcome)

SpecAnalyze == InitAnalyze /\ [][NextAnalyze]_vars

\* lines a model answer is made of: flag lines with and without identifier
\* and blanks, a flag line whose value is a flag line, a flag line whose value
\* is blank, a bare word, a bare boolean and explanation lines with and
\* without blanks
FlagLines ==
    {<<"Flag", ":", "true">>,
     <<"Explanation", ":", "a">>,
     <<"Explanation", " ", ":", " ", "true", " ">>,
     <<"a", "Flag", " ", ":", " ", "a", " ">>,
     <<"Flag", ":", "Flag", ":">>,
     <<"Flag", ":", " ">>,
     <<"a">>,
     <<"true">>}

\* two such lines, on one line or on two
TwoLineTexts ==
    {x \o sep \o y : x \in FlagLines, y \in FlagLines,
                     sep \in {<<"\n">>, <<" ">>, <<"\n", " ">>}}

\* the texts Postprocessor.parse is applied to: every text of up to MaxText
\* symbols and the two-line texts
Texts == UNION {[1 .. n -> Symbols] : n \in 0 .. MaxText} \cup TwoLineTexts

InitParse ==
    /\ disk = EmptyDisk
    /\ index = [i \in IndexIds |->
                  IF i = DummyId THEN NewSupportIndex(<<>>, 0, 0) ELSE NoIndex]
    /\ clip_side = 1
    /\ ret = NoRet
    /\ nup = 0
    /\ svc = InitSvc /\ obj = InitObj /\ req = InitReq /\ ui = NoRun
    /\ pp \in {[InitPp EXCEPT !.text = t] : t \in Texts}

NextParse == Parse

SpecParse == InitParse /\ [][NextParse]_vars

\* one analyze() call on a support tree that upload requests rewrite while
\* the call runs: the tree is shared with every process and thread that
\* serves the upload endpoint, and analyze() takes no lock on it
InitAnalyzeUpload ==
    /\ disk \in {UploadAll(EmptyDisk, << <<"a", <<"a">>, 0, ".png", "img1">> >>),
                 UploadAll(EmptyDisk, << <<"a", <<"a", "b">>, 0, ".png", "img1">>,
                                         <<"b", <<"a", "b">>, 1, ".png", "img2">> >>)}
    /\ index = [i \in IndexIds |->
                  IF i = DummyId THEN NewSupportIndex(<<>>, 0, 0) ELSE NoIndex]
    /\ clip_side = 1
    /\ ret = NoRet
    /\ nup = 0
    /\ svc = InitSvc /\ obj = InitObj /\ req = InitReq /\ pp = InitPp
    /\ ui = NoRun

NextAnalyzeUpload ==
    \/ \E c \in Labels, cl \in ClassLists, n \in UploadIndexes, f \in UploadFiles :
          Upload(c, TRUE, cl, n, f.ext, f.bytes)
    \/ \E p \in {AnalyzeArgs(GoodImage1, 2, 2, 1, 1, 2),
                  AnalyzeArgs(GoodImage2, 2, 2, 2, 2, 2)} : AnalyzeBegin(1, p)
    \/ ConstructIndex(1)
    \/ BuildIndex(1)
    \/ AssignIndex(1)
    \/ Preprocess(1)
    \/ \E tie \in TieOrders : RunRetrieve(1, tie)
    \/ RunPrompt(1)
    \/ GenerateBegin(1)
    \/ \E outcome \in ModelOutputs \cup {<<GenerateError>>} : GenerateEnd(1, outcome)

SpecAnalyzeUpload == InitAnalyzeUpload /\ [][NextAnalyzeUpload]_vars

\* pipeline runs of the UI, one after the other, on a tree that is empty or
\* holds what earlier uploads left
InitPipeline == Init

NextPipeline ==
    \E cl \in {<<"a", "b">>, <<"b", "a">>}, files1 \in Galleries, files2 \in Galleries :
        RunPipeline(cl[1], cl[2], files1, files2)

SpecPipeline == InitPipeline /\ [][NextPipeline]_vars

(* ------------------------------- claims -------------------------------- *)
\* the index and the inputs of the retrieve() call that ret reports
RetIndex == index[ret.idx]
RetRows == RetIndex.vectors.rows
RetQVecs == GetPatchEmbeddings(ret.q, clip_side)
RetrieveReturned == ret.op = "retrieve" /\ ret.status = "ok"
BuildEnded == ret.op = "build" /\ ret.status \notin {"running", "skipped"}

\* C1: on an index on which no build() has returned normally and that holds
\* no vectors (it is fresh, or its build() raised before any row was added),
\* retrieve() fails with the not-built error and returns no class scores and
\* no evidence, whatever the query image and k.
C1_RetrieveBeforeBuild ==
    (ret.op = "retrieve" /\ ~RetIndex.build_ok /\ RetIndex.vectors.none) =>
        /\ ret.status = "NotBuiltError"
        /\ ret.evidence = <<>>
        /\ DOMAIN ret.class_score = {}

\* retrieve() was called on a request's index after its build() raised the
\* empty-index error
C1_Witness ==
    /\ ret.op = "retrieve" /\ ret.status = "NotBuiltError"
    /\ ret.idx # DummyId
    /\ RetIndex.raised = "EmptyIndexError" /\ ~RetIndex.build_ok

\* C2: once build() has returned normally on an index, a further build()
\* call returns at once as a skip and the EmbeddingMatrix and the
\* PatchRecord list of that index never change again, also when the support
\* tree has changed in between.
C2_BuildIdempotent ==
    [][\A i \in IndexIds :
          (index[i].build_ok /\ index'[i].build_ok) =>
             /\ index'[i].vectors = index[i].vectors
             /\ index'[i].meta = index[i].meta
             /\ (BuildBegin(i) => ret'.status = "skipped" /\ index'[i].pc = "idle")]_vars

\* a second build() was skipped on an index whose support tree changed
\* after the first build() ended
C2_Witness ==
    /\ ret.op = "build" /\ ret.status = "skipped"
    /\ RetIndex.build_ok /\ RetIndex.moved

\* C3: in every state the EmbeddingMatrix has as many rows as there are
\* PatchRecords, and row n was computed from the image and tile that
\* PatchRecord n names.
C3_RowsMatchRecords ==
    \A i \in IndexIds :
        LET rows == index[i].vectors.rows
            meta == index[i].meta
        IN /\ Len(rows) = Len(meta)
           /\ \A n \in 1 .. Len(rows) :
                 /\ meta[n].image_path = rows[n].path
                 /\ meta[n].patch_idx = rows[n].tok

\* C4: after build() returns normally the EmbeddingMatrix has
\* (images processed) x (resolution / patch_size)^2 rows.
C4_IndexSize ==
    (ret.op = "build" /\ ret.status = "ok") =>
        LET n == RetIndex.RES \div RetIndex.PATCH
        IN Len(RetRows) = RetIndex.nimg * n * n

\* C5: every SupportIndex that exists has patch_size > 0 and a resolution
\* that is a multiple of patch_size.
C5_GridTilesEvenly ==
    \A i \in IndexIds :
        index[i].exists => (index[i].PATCH > 0 /\ index[i].RES % index[i].PATCH = 0)

\* C6: build() ends in the empty-index error exactly when no embedding row
\* was added, the index is then not built, and in every other case build()
\* returns normally.
C6_EmptyIndexExactly ==
    (ret.op = "build" /\ ret.status # "running") =>
        /\ ret.status \in {"ok", "skipped", "EmptyIndexError"}
        /\ (ret.status = "EmptyIndexError") <=> (Len(RetRows) = 0)
        /\ (ret.status = "EmptyIndexError") => (RetIndex.vectors.none /\ ~RetIndex.build_ok)

\* C7: a build() that ran over an unchanged support tree ends as a build
\* over the kept images alone would: missing class folders and files that
\* do not decode or have no recognized extension leave no trace, and the
\* index holds exactly the rows and PatchRecords of the kept images.
C7_FailSoft ==
    (BuildEnded /\ RetIndex.bstable) =>
        LET ix == RetIndex
            folders == SelectSeq(ix.class_dirs, LAMBDA l : IsDir(disk, l))
        IN IF folders # <<>> /\ ix.PATCH = 0
           THEN ret.status = "ZeroDivisionError" /\ ix.vectors.none /\ ix.meta = <<>>
           ELSE LET rows == KeptEmbeddings(disk, ix.class_dirs, clip_side)
                    boxes == IF folders = <<>> THEN <<>> ELSE PatchCoords(ix.RES, ix.PATCH)
                IN /\ ix.vectors.rows = rows
                   /\ ix.meta = KeptRecords(disk, ix.class_dirs, boxes)
                   /\ ret.status = (IF rows = <<>> THEN "EmptyIndexError" ELSE "ok")

\* a build() returned normally after skipping a missing class folder and a
\* file that does not decode
C7_Witness ==
    /\ ret.op = "build" /\ ret.status = "ok" /\ RetIndex.bstable
    /\ RetIndex.skip_dir /\ RetIndex.skip_file /\ RetIndex.nimg > 0

\* C8: retrieve(query, k) on an index with N rows returns exactly
\* Q x min(k, N) evidence items for a query of Q patches.
C8_EvidenceCount ==
    RetrieveReturned =>
        Len(ret.evidence) = Len(RetQVecs) * Min(ret.k, Len(RetRows))

\* C9: for every query patch the selected rows are distinct, each carries
\* its dot product with the query patch, and no row left out is strictly
\* more similar to the query patch than a selected row.
C9_TopKExact ==
    RetrieveReturned =>
        \A qi \in DOMAIN RetQVecs :
            LET sims == Sims(RetRows, RetQVecs[qi])
                sel == {n \in DOMAIN ret.evidence :
                           ret.evidence[n].query_patch_idx = qi - 1}
                picked == {ret.evidence[n].row : n \in sel}
            IN /\ Cardinality(picked) = Cardinality(sel)
               /\ picked \subseteq DOMAIN sims
               /\ \A n \in sel : ret.evidence[n].sim = sims[ret.evidence[n].row]
               /\ \A j \in DOMAIN sims \ picked : \A r \in picked : sims[j] <= sims[r]

\* a retrieve() with k >= 1 left out a row that is strictly less similar to
\* a query patch than a row it selected for that patch
C9_Witness ==
    /\ RetrieveReturned /\ ret.k >= 1
    /\ \E qi \in DOMAIN RetQVecs :
          LET sims == Sims(RetRows, RetQVecs[qi])
              picked == {ret.evidence[n].row : n \in
                            {m \in DOMAIN ret.evidence :
                                ret.evidence[m].query_patch_idx = qi - 1}}
          IN \E j \in DOMAIN sims \ picked : \E r \in picked : sims[j] < sims[r]

RECURSIVE SumOfLabel(_, _, _)
\* sum of the similarities of the first n evidence items that carry label
SumOfLabel(ev, label, n) ==
    IF n = 0 THEN 0
    ELSE SumOfLabel(ev, label, n - 1)
           + (IF ev[n].ref.label = label THEN ev[n].sim ELSE 0)

\* C10: the keys of the ClassScoreMap are exactly the labels of the returned
\* evidence items, all of them labels of the index, and each value is the
\* plain sum of the similarities of the items with that label.
C10_ClassScores ==
    RetrieveReturned =>
        /\ DOMAIN ret.class_score = {ret.evidence[n].ref.label : n \in DOMAIN ret.evidence}
        /\ DOMAIN ret.class_score \subseteq Range(RetIndex.class_dirs)
        /\ \A l \in DOMAIN ret.class_score :
              ret.class_score[l] = SumOfLabel(ret.evidence, l, Len(ret.evidence))

\* a retrieve() returned scores for two labels, one of them summed from
\* several evidence items to a non-zero score
C10_Witness ==
    /\ RetrieveReturned
    /\ Cardinality(DOMAIN ret.class_score) = 2
    /\ \E l \in DOMAIN ret.class_score :
          /\ ret.class_score[l] # 0
          /\ Cardinality({n \in DOMAIN ret.evidence : ret.evidence[n].ref.label = l}) >= 2

\* number of positions of seq that hold x
CountOf(seq, x) == Cardinality({n \in DOMAIN seq : seq[n] = x})

\* seq1 is a permutation of seq2
IsPermutation(seq1, seq2) ==
    /\ Len(seq1) = Len(seq2)
    /\ \A x \in Range(seq1) \cup Range(seq2) : CountOf(seq1, x) = CountOf(seq2, x)

\* C11: the evidence list retrieve() returns is in non-increasing order of
\* similarity over all query patches together, and it is a permutation of
\* the items emitted query patch by query patch.
C11_EvidenceSorted ==
    RetrieveReturned =>
        /\ \A m, n \in DOMAIN ret.evidence :
              m < n => ret.evidence[m].sim >= ret.evidence[n].sim
        /\ \E tie \in TieOrders :
              IsPermutation(ret.evidence,
                            EmitAll(RetRows, RetIndex.meta, RetQVecs, ret.k, tie,
                                    Len(RetQVecs)))

\* a retrieve() returned a list in which an item of a later query patch
\* stands before a strictly less similar item of an earlier query patch
C11_Witness ==
    /\ RetrieveReturned
    /\ \E m, n \in DOMAIN ret.evidence :
          /\ m < n
          /\ ret.evidence[m].query_patch_idx > ret.evidence[n].query_patch_idx
          /\ ret.evidence[m].sim > ret.evidence[n].sim

\* the call has returned
Ended(r) == req[r].pc = "done"
\* the call has returned after an exception in stage
FailedIn(r, stage) == Ended(r) /\ req[r].failed = stage

\* C12: analyze() never raises: whichever stage raises, the call ends with
\* the record {success: false, error: message of the exception} (and the
\* imageId), without flag, explanation or class_scores; every call that has
\* ended has returned a record.
C12_AnalyzeNeverRaises ==
    \A r \in Requests :
        /\ Ended(r) => req[r].out # NoOut /\ "success" \in DOMAIN req[r].out
        /\ req[r].failed # "" =>
              /\ Ended(r) /\ req[r].raised # ""
              /\ DOMAIN req[r].out = {"success", "error", "imageId"}
              /\ req[r].out.success = FALSE
              /\ req[r].out.error = req[r].raised
              /\ req[r].out.imageId = r

\* one call ended with the failure record of an exception of generate(),
\* the other with that of an exception of the index build
C12_Witness ==
    \E r1, r2 \in Requests :
        /\ FailedIn(r1, "generate") /\ req[r1].out.error = GenerateError
        /\ FailedIn(r2, "build") /\ req[r2].out.error = "ZeroDivisionError"

\* C13: the stages of one analyze() call start in the order discover,
\* build, preprocess, retrieve, generate, postprocess, each only after the
\* earlier ones succeeded; the stage that fails is the last one started, so
\* generate() is never entered after a failed build or a failed decode.
C13_StageOrder ==
    \A r \in Requests :
        LET st == req[r].stages
        IN /\ Len(st) <= Len(StageOrder) /\ st = SubSeq(StageOrder, 1, Len(st))
           /\ req[r].failed # "" =>
                 Ended(r) /\ st # <<>> /\ req[r].failed = st[Len(st)]
           /\ "generate" \in Range(st) =>
                 /\ req[r].built # None /\ req[r].failed \notin {"build", "preprocess"}
                 /\ req[r].query_img \in ImageContents
                 /\ req[r].used # None

\* one call stopped at the image decode without retrieval or generation
\* while the other went through all six stages
C13_Witness ==
    \E r1, r2 \in Requests :
        /\ FailedIn(r1, "preprocess")
        /\ req[r1].stages = <<"discover", "build", "preprocess">>
        /\ Ended(r2) /\ req[r2].failed = "" /\ req[r2].stages = StageOrder

VisibleDirs(d) ==
    IF d.kind # "dir" THEN {}
    ELSE {n \in Range(d.root) : n \notin HiddenNames /\ n \notin d.plain}

\* C15: class discovery yields exactly the immediate subdirectories of the
\* support root whose names do not start with ".", each once (its path is
\* the root joined with the name); when there is none, or the root is
\* missing or no directory, analyze() returns success = false with a
\* message and neither constructs nor builds an index.
C15_ClassDiscovery ==
    \A r \in Requests :
        req[r].pc # "new" =>
            IF VisibleDirs(disk) # {}
            THEN /\ req[r].failed # "discover"
                 /\ Range(req[r].class_dirs) = VisibleDirs(disk)
                 /\ Len(req[r].class_dirs) = Cardinality(VisibleDirs(disk))
            ELSE /\ FailedIn(r, "discover")
                 /\ req[r].out.success = FALSE /\ req[r].out.error # ""
                 /\ ~obj[r].exists /\ req[r].built = None
                 /\ req[r].stages = <<"discover">>

\* a call failed in discovery on a root that holds only a hidden folder and
\* a plain file, and constructed no index
C15_Witness ==
    /\ disk.kind = "dir" /\ ".cache" \in Range(disk.root) /\ disk.plain # {}
    /\ \E r \in Requests :
          /\ FailedIn(r, "discover") /\ ~obj[r].exists
          /\ req[r].out.error = "No support class folders found"

Prompted(r) == req[r].rag_images # <<>>
\* the evidence items behind the patches of the image sequence, in order
PatchItems(r) ==
    [n \in 1 .. Len(req[r].rag_images) - 1 |-> req[r].rag_images[n + 1].item]
\* the items of a sequence of evidence items that carry label
OfLabel(items, label) == SelectSeq(items, LAMBDA e : e.ref.label = label)

\* C18: for max_patches_per_class >= 0 the patches kept for a label are
\* exactly the first min(n_label, max_patches_per_class) evidence items of
\* that label, in arrival order; no label has more than
\* max_patches_per_class patches and no dropped item of a label is more
\* similar than a kept one.
C18_PerLabelTruncation ==
    \A r \in Requests :
        (Prompted(r) /\ req[r].p.max_patches_per_class >= 0) =>
            \A label \in Labels :
                LET all == OfLabel(req[r].evidence, label)
                    kept == OfLabel(PatchItems(r), label)
                    n == Min(Len(all), req[r].p.max_patches_per_class)
                IN /\ kept = SubSeq(all, 1, n)
                   /\ Len(kept) <= req[r].p.max_patches_per_class
                   /\ \A i \in 1 .. n : \A j \in n + 1 .. Len(all) :
                         all[i].sim >= all[j].sim

\* a label had more evidence items than max_patches_per_class >= 1 and was
\* cut, the dropped items including one strictly less similar than a kept one
C18_Witness ==
    \E r \in Requests, label \in Labels :
        LET all == OfLabel(req[r].evidence, label)
            mpc == req[r].p.max_patches_per_class
        IN /\ Prompted(r) /\ mpc >= 1 /\ Len(all) > mpc
           /\ Len(OfLabel(PatchItems(r), label)) = mpc
           /\ \E j \in mpc + 1 .. Len(all) : all[j].sim < all[1].sim

\* position of the first item of the evidence list that is one of items
FirstPos(evidence, items) ==
    CHOOSE n \in DOMAIN evidence :
        /\ evidence[n] \in items
        /\ \A m \in DOMAIN evidence : evidence[m] \in items => n <= m

\* text is prompt without the blanks at its two ends
IsStripped(text, prompt) ==
    \/ text = <<>> /\ \A n \in DOMAIN prompt : IsSpace(prompt[n])
    \/ \E i, j \in DOMAIN prompt :
          /\ i <= j /\ text = SubSeq(prompt, i, j)
          /\ ~IsSpace(prompt[i]) /\ ~IsSpace(prompt[j])
          /\ \A n \in DOMAIN prompt : (n < i \/ n > j) => IsSpace(prompt[n])

\* C19: the image sequence given to the generative model is the query
\* image followed by the retained patches, the labels in the order of their
\* first appearance in the evidence list and the patches of a label in
\* arrival order; the user turn holds one image placeholder per image and
\* then, as its last element, the text of the user prompt (blanks at its
\* ends removed).
C19_ImageSequence ==
    \A r \in Requests :
        Prompted(r) =>
            LET imgs == req[r].rag_images
                items == PatchItems(r)
                ev == req[r].evidence
                uc == req[r].user_content
                Pos(e) == FirstPos(ev, {e})
                LabelPos(e) ==
                    FirstPos(ev, {x \in Range(ev) : x.ref.label = e.ref.label})
            IN /\ imgs[1].kind = "query" /\ imgs[1].content = req[r].query_img
               /\ \A n \in DOMAIN items :
                     imgs[n + 1].kind = "patch" /\ items[n] \in Range(ev)
               /\ \A m, n \in DOMAIN items :
                     m < n => IF items[m].ref.label = items[n].ref.label
                              THEN Pos(items[m]) < Pos(items[n])
                              ELSE LabelPos(items[m]) < LabelPos(items[n])
               /\ Len(uc) = Len(imgs) + 1
               /\ \A n \in 1 .. Len(imgs) : uc[n].type = "image"
               /\ uc[Len(uc)].type = "text"
               /\ IsStripped(uc[Len(uc)].text, req[r].p.user_prompt)

\* an image sequence with patches of two labels in which grouping by label
\* moved a patch before one that stands earlier in the evidence list
C19_Witness ==
    \E r \in Requests :
        /\ Prompted(r)
        /\ Len(req[r].user_content) >= 4
        /\ \E m, n \in DOMAIN PatchItems(r) :
              /\ m < n
              /\ PatchItems(r)[m].ref.label # PatchItems(r)[n].ref.label
              /\ FirstPos(req[r].evidence, {PatchItems(r)[m]})
                   > FirstPos(req[r].evidence, {PatchItems(r)[n]})

\* text[s .. e] is an <identifier>Flag, blanks, ':', blanks and a value that
\* stays on one line
InFlagLanguage(text, s, e) ==
    \E f \in s .. e, c \in s .. e, v \in s .. e :
        /\ f < c /\ c < v
        /\ \A n \in s .. f - 1 : IsWordChar(text[n])
        /\ text[f] = "Flag"
        /\ \A n \in f + 1 .. c - 1 : IsSpace(text[n])
        /\ text[c] = ":"
        /\ \A n \in c + 1 .. v - 1 : IsSpace(text[n])
        /\ \A n \in v .. e : IsNotNewline(text[n])

\* the flag matches that start at a position, each taken as long as possible
LongestFlagSpans(text) ==
    {sp \in (DOMAIN text) \X (DOMAIN text) :
        /\ InFlagLanguage(text, sp[1], sp[2])
        /\ \A e \in DOMAIN text : InFlagLanguage(text, sp[1], e) => e <= sp[2]}

\* the matches a scan from left to right finds: no match starts inside
\* another one, and every position where a match could start lies in one
ScannedFlagSpans(text) ==
    CHOOSE S \in SUBSET LongestFlagSpans(text) :
        /\ \A sp \in S, sq \in S : ~(sq[1] < sp[1] /\ sp[1] <= sq[2])
        /\ \A sp \in LongestFlagSpans(text) :
              \E sq \in S : sq[1] <= sp[1] /\ sp[1] <= sq[2]

\* C20: the flag is decided by four rules in fixed priority: (1) when the
\* text holds matches of <identifier>Flag, ':' and a value, the last match
\* without the blanks at its ends, as a string even when its value reads
\* true or false; (2) else the boolean when the trimmed text is true or
\* false; (3) else the trimmed text when it is one token; (4) else nothing.
C20_FlagPriority ==
    pp.done =>
        LET spans == ScannedFlagSpans(pp.text)
            last == CHOOSE sp \in spans : \A sq \in spans : sq[1] <= sp[1]
            OneToken(val) == val # <<>> /\ \A n \in DOMAIN val : ~IsSpace(val[n])
        IN IF spans # {}
           THEN /\ pp.flag.kind = "str"
                /\ IsStripped(pp.flag.val, SubSeq(pp.text, last[1], last[2]))
           ELSE IF IsStripped(<<"true">>, pp.text)
           THEN pp.flag.kind = "bool" /\ pp.flag.val = <<"true">>
           ELSE IF IsStripped(<<"false">>, pp.text)
           THEN pp.flag.kind = "bool" /\ pp.flag.val = <<"false">>
           ELSE IF \E i, j \in DOMAIN pp.text :
                      /\ OneToken(SubSeq(pp.text, i, j))
                      /\ IsStripped(SubSeq(pp.text, i, j), pp.text)
           THEN /\ pp.flag.kind = "str" /\ OneToken(pp.flag.val)
                /\ IsStripped(pp.flag.val, pp.text)
           ELSE pp.flag = [kind |-> "none", val |-> <<>>]

\* a text with two flag matches on two lines was parsed: the flag is the
\* second match, trimmed, a string that differs from the first match and
\* whose value reads true
C20_Witness ==
    /\ pp.done
    /\ pp.text = <<"a", "Flag", " ", ":", " ", "a", " ", "\n", "Flag", ":", "true">>
    /\ Cardinality(ScannedFlagSpans(pp.text)) = 2
    /\ pp.flag = [kind |-> "str", val |-> <<"Flag", ":", "true">>]

\* the positions where an 'Explanation', blanks and ':' start
DelimiterStarts(text) ==
    {s \in DOMAIN text :
        /\ text[s] = "Explanation"
        /\ \E c \in s + 1 .. Len(text) :
              text[c] = ":" /\ \A n \in s + 1 .. c - 1 : IsSpace(text[n])}

\* the text after the ':' of the delimiter that starts at s
AfterDelimiter(text, s) ==
    LET c == CHOOSE n \in s + 1 .. Len(text) :
                 text[n] = ":" /\ \A m \in s + 1 .. n - 1 : IsSpace(text[m])
    IN SubSeq(text, c + 1, Len(text))

\* C21: the explanation is nothing when the text holds no 'Explanation'
\* followed by ':' or when only blanks follow the last such delimiter;
\* otherwise it is the text after the last delimiter without the blanks at
\* its ends. It is decided by the text alone, whatever the flag is.
C21_Explanation ==
    pp.done =>
        LET starts == DelimiterStarts(pp.text)
            last == CHOOSE s \in starts : \A t \in starts : t <= s
            rest == AfterDelimiter(pp.text, last)
        IN IF starts = {} \/ \A n \in DOMAIN rest : IsSpace(rest[n])
           THEN pp.explanation = [kind |-> "none", val |-> <<>>]
           ELSE /\ pp.explanation.kind = "str"
                /\ pp.explanation.val # <<>>
                /\ IsStripped(pp.explanation.val, rest)

\* a text with two delimiters and a flag line was parsed: the explanation is
\* the text after the second delimiter, which differs from the text between
\* the two, and the flag is present as well
C21_Witness ==
    /\ pp.done
    /\ pp.text = <<"Explanation", ":", "a", "\n", " ",
                   "Explanation", " ", ":", " ", "true", " ">>
    /\ Cardinality(DelimiterStarts(pp.text)) = 2
    /\ pp.explanation = [kind |-> "str", val |-> <<"true">>]

\* the call has gone through preprocessing
Preprocessed(r) == "preprocess" \in Range(req[r].stages)

\* C22: preprocess() takes the encoded image with a data-URI prefix as it
\* takes it without: a call whose image carries the prefix before a valid
\* payload passes preprocessing with the image and the original size of the
\* payload.
C22_DataUriAccepted ==
    \A r \in Requests :
        (Preprocessed(r) /\ req[r].p.b64.uri
            /\ req[r].p.b64.content \in ImageContents) =>
                /\ req[r].failed # "preprocess"
                /\ req[r].query_img = req[r].p.b64.content
                /\ req[r].orig_size = req[r].p.b64.size

\* C23: over the start-up, repeated constructions of the service and every
\* analyze() call, the weights of the visual encoder and of the generative
\* model are loaded at most once each; every SupportIndex a call constructs
\* holds that one encoder instance and every generate() runs on that one
\* generative model.
C23_ModelsLoadedOnce ==
    /\ svc.clip_loader.loads <= 1 /\ svc.qwen_loader.loads <= 1
    /\ svc.initialized =>
          /\ svc.clip_loader.loads = 1 /\ svc.qwen_loader.loads = 1
          /\ svc.vlm_model = svc.qwen_loader.model
    /\ \A r \in Requests :
          /\ "build" \in Range(req[r].stages) =>
                req[r].clip_model = svc.clip_loader.model /\ req[r].clip_model = 1
          /\ "generate" \in Range(req[r].stages) =>
                req[r].vlm_model = svc.qwen_loader.model /\ req[r].vlm_model = 1

\* after the start-up two calls have each constructed a SupportIndex, and
\* with it the CLIP loader again, and both have entered generate()
C23_Witness ==
    /\ svc.initialized
    /\ \A r \in Requests :
          /\ "generate" \in Range(req[r].stages)
          /\ req[r].clip_model = 1 /\ req[r].vlm_model = 1

\* C24: the rectangle cropped for an evidence patch lies inside the image
\* it is cropped from and covers the same relative region of the support
\* image as the box of the PatchRecord does in the image as resized to the
\* resolution of the index that was built and queried.
C24_CropMatchesTile ==
    \A r \in Requests :
        (Prompted(r) /\ req[r].failed = "") =>
            \A n \in 2 .. Len(req[r].rag_images) :
                LET img == req[r].rag_images[n]
                    res == obj[req[r].used].RES
                IN /\ 0 <= img.box[1] /\ img.box[1] < img.box[3]
                   /\ img.box[3] <= img.canvas
                   /\ 0 <= img.box[2] /\ img.box[2] < img.box[4]
                   /\ img.box[4] <= img.canvas
                   /\ \A c \in 1 .. 4 : img.box[c] * res = img.box[c] * img.canvas

\* C25: after a build() that ran over an unchanged support tree and
\* returned normally, on a grid of at least one tile, every decodable image
\* the upload endpoint stored in a class directory of the index has
\* PatchRecords in the index.
C25_UploadedImagesIndexed ==
    (BuildEnded /\ ret.status = "ok" /\ RetIndex.bstable
        /\ RetIndex.PATCH > 0 /\ RetIndex.RES >= RetIndex.PATCH) =>
        \A label \in Range(RetIndex.class_dirs) :
            IsDir(disk, label) =>
                \A n \in DOMAIN disk.files[label] :
                    LET f == disk.files[label][n]
                    IN f.content \in ImageContents =>
                          \E m \in DOMAIN RetIndex.meta :
                              RetIndex.meta[m].image_path = <<label, f.idx, f.ext>>

\* C26: once build() has returned normally on an index, retrieve() on that
\* index does not fail with the not-built error, whatever the resolution
\* and the patch size.
C26_BuiltAfterBuild ==
    (ret.op = "retrieve" /\ RetIndex.build_ok) => ret.status # "NotBuiltError"

\* C27: an index on which no build() has returned normally is not treated
\* as built: build() on it is not skipped as already built and retrieve()
\* on it returns no result, also after a build() that raised part-way.
C27_PartialBuildNotBuilt ==
    ~RetIndex.build_ok =>
        /\ ~(ret.op = "build" /\ ret.status = "skipped")
        /\ ~(ret.op = "retrieve" /\ ret.status = "ok")

\* C28: an upload request that is rejected (success = false) leaves the
\* support tree as it was, whatever its index field, 0 included.
C28_RejectedUploadNoEffect ==
    [][(nup' = nup + 1 /\ ret'.op = "upload" /\ ret'.status = "rejected")
          => disk' = disk]_vars

\* the files of a gallery as the upload endpoint names and stores them,
\* numbered from first
StoredAs(files, first) ==
    {[idx |-> first + n - 1, ext |-> files[n].ext, content |-> files[n].bytes] :
        n \in DOMAIN files}

\* C29: when a pipeline run reaches the inference call, the support tree
\* holds the two class directories of the run and, in them, the images of
\* the run's two galleries and nothing else, also when a gallery is empty.
C29_NoLeftovers ==
    ui.reached =>
        /\ disk.kind = "dir"
        /\ Range(disk.root) = {ui.class1, ui.class2}
        /\ Range(disk.files[ui.class1]) = StoredAs(ui.files1, 0)
        /\ Range(disk.files[ui.class2]) = StoredAs(ui.files2, Len(ui.files1))
        /\ \A label \in Labels \ {ui.class1, ui.class2} : disk.files[label] = <<>>

\* C30: whatever upload requests do to the support tree while analyze()
\* runs, the call ends with a result record, and in a successful result
\* every evidence patch given to the generative model was cropped from the
\* content its file had when the index of the call was built.
C30_UploadsDuringAnalyze ==
    \A r \in Requests :
        Ended(r) =>
            /\ req[r].out # NoOut
            /\ req[r].out.success =>
                  \A n \in 2 .. Len(req[r].rag_images) :
                      LET img == req[r].rag_images[n]
                          path == img.item.ref.image_path
                      IN img.content =
                            OpenImage(req[r].built_tree, path[1],
                                      [idx |-> path[2], ext |-> path[3]])
====
